---- MODULE Spec2Model ----
(***************************************************************************)
(* SqlTestCase, the SQL test harness of soda-sql                           *)
(* (src/tests/common/sql_test_case.py): configuration resolution, the      *)
(* class-level Warehouse cache of setUp, tearDown's rollback, scan's       *)
(* parse-log handling and the three measurement assertions.                *)
(***************************************************************************)
EXTENDS Integers, Sequences, FiniteSets, TLC

VARIABLES
    phase,                   \* "idle" | "constructed" | "body" | "raised"
    last_op,                 \* the method that ran last
    test_no,                 \* number of SqlTestCase instances constructed
    profile_name,            \* self.profile_name
    profile_target_name,     \* self.profile_target_name
    profiles_yml,            \* the file at Profile.USER_HOME_PROFILES_YAML_LOCATION
    warehouse,               \* SqlTestCase.warehouse, the class-level cache
    connection,              \* self.connection: id of the owning Warehouse, 0 = None
    open_connections,        \* ids of the Warehouses whose connection is open
    db,                      \* [committed, working]: warehouse data and the open transaction's view
    inserted,                \* the tests whose sql_update / create_table inserted rows
    outcome,                 \* how the last setUp / scan ended
    warehouse_configuration, \* setUp's local: the resolved configuration
    io,                      \* [read, wrote]: file accesses of the last resolution
    yml_before,              \* profiles_yml when the last setUp began
    cached_before,           \* SqlTestCase.warehouse when the last setUp began
    events,                  \* close / open calls of the last setUp, in order
    peak_open,               \* most connections open at once during the last setUp
    parse_logs,              \* scan_configuration.parse_logs.logs of the last scan
    log_sink,                \* parse-log entries the last scan passed to logging.info
    scan_result,             \* measurements of the ScanResult under assertion
    column,                  \* the column argument of the assertion
    expected_metrics,        \* the expected / forbidden metrics argument
    assert_op,               \* the assertion helper that ran
    passed                   \* TRUE iff that helper's assertEqual passed

vars == << phase, last_op, test_no, profile_name, profile_target_name, profiles_yml,
           warehouse, connection, open_connections, db, inserted, outcome,
           warehouse_configuration, io, yml_before, cached_before, events, peak_open,
           parse_logs, log_sink, scan_result, column, expected_metrics, assert_op,
           passed >>

harness_vars == << phase, last_op, test_no, profile_name, profile_target_name,
                   profiles_yml, warehouse, connection, open_connections, db, inserted,
                   outcome, warehouse_configuration, io, yml_before, cached_before, events,
                   peak_open, parse_logs, log_sink >>

assert_vars == << scan_result, column, expected_metrics, assert_op, passed >>

----------------------------------------------------------------------------
(* Bounds *)

MaxTests == 3
MaxLogs == 2
MaxMeasurements == 3
MaxExpected == 2

ProfileNames == {"test", "prod"}
TargetNames == {"local_postgres", "redshift", "snowflake"}
Severities == {"info", "warning", "error"}
ColumnNames == {"name", "size"}
Metrics == {"row_count", "min"}

RECURSIVE SeqsUpTo(_, _)
SeqsUpTo(S, n) ==
    IF n = 0 THEN { <<>> }
    ELSE LET shorter == SeqsUpTo(S, n - 1)
         IN  shorter \cup { Append(s, x) : s \in { t \in shorter : Len(t) = n - 1 }, x \in S }

ToSet(s) == { s[i] : i \in DOMAIN s }

Max(a, b) == IF a >= b THEN a ELSE b

----------------------------------------------------------------------------
(* Configurations and the profile store *)

NoConfiguration == [name |-> "None"]

BuiltinConfiguration ==
    [name |-> "test_postgres_warehouse", type |-> "postgres", host |-> "localhost",
     port |-> "5432", username |-> "sodalite", database |-> "sodalite",
     schema |-> "public"]

PlaceholderProperties ==
    [type |-> "redshift", host |-> "***", port |-> "5439", username |-> "***",
     database |-> "***", schema |-> "public"]

initial_profile ==
    [test |-> [target |-> "redshift", outputs |-> [redshift |-> PlaceholderProperties]]]

EditedProperties ==
    [type |-> "redshift", host |-> "dwh.example", port |-> "5439", username |-> "soda",
     database |-> "soda", schema |-> "public"]

edited_profile ==
    [test |-> [target |-> "redshift", outputs |-> [redshift |-> EditedProperties]]]

empty_profiles == [p \in {} |-> 0]

AbsentFile == [exists |-> FALSE, content |-> empty_profiles]

FileWith(content) == [exists |-> TRUE, content |-> content]

NoSuchFile == "No such file or directory"

\* Profile(profile_name, target_name): parse_logs and properties of the lookup.
Profile(pn, tn, yml) ==
    IF ~yml.exists
    THEN [logs |-> << [level |-> "error", message |-> NoSuchFile] >>,
          properties |-> NoConfiguration]
    ELSE IF pn \notin DOMAIN yml.content
    THEN [logs |-> << [level |-> "error", message |-> "Profile not found"] >>,
          properties |-> NoConfiguration]
    ELSE IF tn \notin DOMAIN yml.content[pn].outputs
    THEN [logs |-> << [level |-> "error", message |-> "Target not found"] >>,
          properties |-> NoConfiguration]
    ELSE [logs |-> <<>>, properties |-> yml.content[pn].outputs[tn]]

\* ParseLogs.has_warnings_or_errors
has_warnings_or_errors(logs) ==
    \E i \in DOMAIN logs : logs[i].level \in {"warning", "error"}

\* get_warehouse_configuration without the built-in default: always the profile store.
get_warehouse_configuration_NoDefault(pn, tn, yml) ==
    LET profile == Profile(pn, tn, yml)
    IN  IF has_warnings_or_errors(profile.logs) /\ profile.logs[1].message = NoSuchFile
        THEN [outcome |-> "ConfigurationMissing", properties |-> NoConfiguration,
              yml |-> FileWith(initial_profile), read |-> TRUE, wrote |-> TRUE]
        ELSE IF has_warnings_or_errors(profile.logs)
        THEN [outcome |-> "ConfigurationInvalid", properties |-> NoConfiguration,
              yml |-> yml, read |-> TRUE, wrote |-> FALSE]
        ELSE [outcome |-> "ok", properties |-> profile.properties,
              yml |-> yml, read |-> TRUE, wrote |-> FALSE]

get_warehouse_configuration(pn, tn, yml) ==
    IF pn = "test" /\ tn = "local_postgres"
    THEN [outcome |-> "ok", properties |-> BuiltinConfiguration,
          yml |-> yml, read |-> FALSE, wrote |-> FALSE]
    ELSE LET profile == Profile(pn, tn, yml)
         IN  IF has_warnings_or_errors(profile.logs)
                /\ profile.logs[1].message = NoSuchFile
             THEN [outcome |-> "ConfigurationMissing", properties |-> NoConfiguration,
                   yml |-> FileWith(initial_profile), read |-> TRUE, wrote |-> TRUE]
             ELSE IF has_warnings_or_errors(profile.logs)
             THEN [outcome |-> "ConfigurationInvalid", properties |-> NoConfiguration,
                   yml |-> yml, read |-> TRUE, wrote |-> FALSE]
             ELSE [outcome |-> "ok", properties |-> profile.properties,
                   yml |-> yml, read |-> TRUE, wrote |-> FALSE]

----------------------------------------------------------------------------
(* The Warehouse cache of setUp *)

NoWarehouse == [id |-> 0, warehouse_configuration |-> NoConfiguration,
                has_warnings |-> FALSE]

\* Warehouse(warehouse_configuration): a new Warehouse with an open connection.
Warehouse(id, cfg, ctor) ==
    [id |-> id, warehouse_configuration |-> cfg, has_warnings |-> (ctor = "warnings")]

\* setUp lines 46-52 with the close of the stale Warehouse left out.
setUpWarehouse_NoClose(cached, cfg, id, ctor) ==
    LET stale == cached # NoWarehouse /\ cached.warehouse_configuration # cfg
        kept == IF stale THEN NoWarehouse ELSE cached
    IN  IF kept = NoWarehouse
        THEN [warehouse |-> Warehouse(id, cfg, ctor),
              events |-> << [op |-> "open", id |-> id] >>,
              outcome |-> IF ctor = "warnings" THEN "WarehouseSetupFailed" ELSE "ok"]
        ELSE [warehouse |-> kept, events |-> <<>>, outcome |-> "ok"]

\* setUp lines 46-52 recreating the Warehouse for every test.
setUpWarehouse_AlwaysRecreate(cached, cfg, id, ctor) ==
    LET closes == IF cached # NoWarehouse
                  THEN << [op |-> "close", id |-> cached.id] >> ELSE <<>>
    IN  [warehouse |-> Warehouse(id, cfg, ctor),
         events |-> Append(closes, [op |-> "open", id |-> id]),
         outcome |-> IF ctor = "warnings" THEN "WarehouseSetupFailed" ELSE "ok"]

\* setUp lines 46-52: close a stale cached Warehouse, construct one if none is cached.
setUpWarehouse(cached, cfg, id, ctor) ==
    LET stale == cached # NoWarehouse /\ cached.warehouse_configuration # cfg
        closes == IF stale THEN << [op |-> "close", id |-> cached.id] >> ELSE <<>>
        kept == IF stale THEN NoWarehouse ELSE cached
    IN  IF kept = NoWarehouse
        THEN [warehouse |-> Warehouse(id, cfg, ctor),
              events |-> Append(closes, [op |-> "open", id |-> id]),
              outcome |-> IF ctor = "warnings" THEN "WarehouseSetupFailed" ELSE "ok"]
        ELSE [warehouse |-> kept, events |-> closes, outcome |-> "ok"]

\* The connections open after the first n events.
RECURSIVE OpenAfter(_, _, _)
OpenAfter(open, evs, n) ==
    IF n = 0 THEN open
    ELSE LET before == OpenAfter(open, evs, n - 1)
         IN  IF evs[n].op = "close" THEN before \ { evs[n].id }
             ELSE before \cup { evs[n].id }

RECURSIVE PeakOpen(_, _, _)
PeakOpen(open, evs, n) ==
    IF n = 0 THEN Cardinality(open)
    ELSE Max(PeakOpen(open, evs, n - 1), Cardinality(OpenAfter(open, evs, n)))

----------------------------------------------------------------------------
(* The connection's transaction *)

\* connection.rollback(): the transaction's view is discarded.
rollback(d) == [committed |-> d.committed, working |-> d.committed]

\* tearDown committing the test's transaction.
tearDownConnection_Commit(d) == [committed |-> d.working, working |-> d.working]

\* tearDown line 91: self.connection.rollback()
tearDownConnection(d) == rollback(d)

\* A connection opened on the warehouse sees the committed data.
fresh(d) == [committed |-> d.committed, working |-> d.committed]

----------------------------------------------------------------------------
(* scan's handling of the parse logs *)

\* scan lines 117-121: assert_no_warnings_or_errors('Test scan'), then log each entry.
scan_logs(logs) ==
    IF has_warnings_or_errors(logs)
    THEN [outcome |-> "ScanConfigurationInvalid", sink |-> <<>>]
    ELSE [outcome |-> "ok", sink |-> logs]

----------------------------------------------------------------------------
(* The measurement assertions *)

Measurements == [column_name : ColumnNames, metric : Metrics]

\* [measurement.metric for measurement in scan_result.measurements
\*  if measurement.column_name == column]
metrics_present(sr, col) ==
    LET selected == SelectSeq(sr, LAMBDA m : m.column_name = col)
    IN  [i \in DOMAIN selected |-> selected[i].metric]

\* The metrics of every measurement, whatever its column.
metrics_present_AnyColumn(sr, col) ==
    [i \in DOMAIN sr |-> sr[i].metric]

\* assertMeasurements accepting any subset of the expected metrics.
assertMeasurements_Subset(sr, col, exp) ==
    ToSet(metrics_present(sr, col)) \subseteq ToSet(exp)

\* assertEqual(set(metrics_present), set(expected_metrics_present))
assertMeasurements(sr, col, exp) ==
    ToSet(metrics_present(sr, col)) = ToSet(exp)

\* assertMeasurementsPresent demanding the exact set, as assertMeasurements does.
assertMeasurementsPresent_Exact(sr, col, exp) ==
    ToSet(metrics_present(sr, col)) = ToSet(exp)

\* assertEqual(set(), set(metrics_expected_and_not_present))
assertMeasurementsPresent(sr, col, exp) ==
    LET present == metrics_present(sr, col)
        metrics_expected_and_not_present ==
            SelectSeq(exp, LAMBDA e : \A i \in DOMAIN present : present[i] # e)
    IN  {} = ToSet(metrics_expected_and_not_present)

\* assertMeasurementsAbsent over the measurements of every column.
assertMeasurementsAbsent_AnyColumn(sr, col, exp) ==
    {} = ToSet(exp) \cap ToSet(metrics_present_AnyColumn(sr, col))

\* assertEqual(set(), set(expected_metrics_absent) & set(metrics_present))
assertMeasurementsAbsent(sr, col, exp) ==
    LET metrics_present_and_expected_absent ==
            ToSet(exp) \cap ToSet(metrics_present(sr, col))
    IN  {} = metrics_present_and_expected_absent

----------------------------------------------------------------------------
(* The harness as a state machine: one test after another *)

ScanParseLogs ==
    { [i \in DOMAIN s |-> [level |-> s[i], message |-> "scan configuration"]] :
        s \in SeqsUpTo(Severities, MaxLogs) }

InitialData == { {}, {0} }

HarnessInit ==
    /\ phase = "idle"
    /\ last_op = "none"
    /\ test_no = 0
    /\ profile_name = "test"
    /\ profile_target_name = "local_postgres"
    /\ warehouse = NoWarehouse
    /\ connection = 0
    /\ open_connections = {}
    /\ inserted = {}
    /\ outcome = "none"
    /\ warehouse_configuration = NoConfiguration
    /\ io = [read |-> FALSE, wrote |-> FALSE]
    /\ cached_before = NoWarehouse
    /\ events = <<>>
    /\ peak_open = 0
    /\ parse_logs = <<>>
    /\ log_sink = <<>>

AssertIdle ==
    /\ scan_result = <<>>
    /\ column = "name"
    /\ expected_metrics = <<>>
    /\ assert_op = "none"
    /\ passed = FALSE

Init ==
    /\ HarnessInit
    /\ profiles_yml \in { AbsentFile, FileWith(edited_profile), FileWith(empty_profiles) }
    /\ yml_before = profiles_yml
    /\ db \in { [committed |-> c, working |-> c] : c \in InitialData }
    /\ AssertIdle

\* SqlTestCase.__init__: the profile and target come from the environment.
NewTest ==
    /\ phase = "idle"
    /\ test_no < MaxTests
    /\ test_no' = test_no + 1
    /\ profile_name' \in ProfileNames
    /\ profile_target_name' \in TargetNames
    /\ connection' = 0
    /\ phase' = "constructed"
    /\ last_op' = "__init__"
    /\ UNCHANGED << profiles_yml, warehouse, open_connections, db, inserted, outcome,
                    warehouse_configuration, io, yml_before, cached_before, events,
                    peak_open, parse_logs, log_sink >>
    /\ UNCHANGED assert_vars

\* setUp: resolve the configuration (line 45), then lines 46-54.
setUp ==
    /\ phase = "constructed"
    /\ \E ctor \in {"ok", "warnings"} :
         LET r == get_warehouse_configuration(profile_name, profile_target_name, profiles_yml)
             w == setUpWarehouse(warehouse, r.properties, test_no, ctor)
         IN  /\ profiles_yml' = r.yml
             /\ io' = [read |-> r.read, wrote |-> r.wrote]
             /\ IF r.outcome # "ok"
                THEN /\ outcome' = r.outcome
                     /\ warehouse_configuration' = NoConfiguration
                     /\ events' = <<>>
                     /\ peak_open' = Cardinality(open_connections)
                     /\ phase' = "idle"
                     /\ UNCHANGED << warehouse, connection, open_connections, db >>
                ELSE /\ warehouse_configuration' = r.properties
                     /\ warehouse' = w.warehouse
                     /\ events' = w.events
                     /\ open_connections' =
                            OpenAfter(open_connections, w.events, Len(w.events))
                     /\ peak_open' = PeakOpen(open_connections, w.events, Len(w.events))
                     /\ db' = IF w.events = <<>> THEN db ELSE fresh(db)
                     /\ outcome' = w.outcome
                     /\ connection' = IF w.outcome = "ok" THEN w.warehouse.id ELSE 0
                     /\ phase' = IF w.outcome = "ok" THEN "body" ELSE "idle"
    /\ yml_before' = profiles_yml
    /\ cached_before' = warehouse
    /\ last_op' = "setUp"
    /\ UNCHANGED << test_no, profile_name, profile_target_name, inserted, parse_logs,
                    log_sink >>
    /\ UNCHANGED assert_vars

\* sql_update with an INSERT of this test's rows.
sql_update ==
    /\ phase = "body"
    /\ connection # 0
    /\ db' = [db EXCEPT !.working = @ \cup { test_no }]
    /\ inserted' = inserted \cup { test_no }
    /\ last_op' = "sql_update"
    /\ UNCHANGED << phase, test_no, profile_name, profile_target_name, profiles_yml,
                    warehouse, connection, open_connections, outcome,
                    warehouse_configuration, io, yml_before, cached_before, events,
                    peak_open, parse_logs, log_sink >>
    /\ UNCHANGED assert_vars

\* create_table: DROP TABLE IF EXISTS, CREATE TABLE, INSERT, each through sql_update.
create_table ==
    /\ phase = "body"
    /\ connection # 0
    /\ db' = [db EXCEPT !.working = { test_no }]
    /\ inserted' = inserted \cup { test_no }
    /\ last_op' = "create_table"
    /\ UNCHANGED << phase, test_no, profile_name, profile_target_name, profiles_yml,
                    warehouse, connection, open_connections, outcome,
                    warehouse_configuration, io, yml_before, cached_before, events,
                    peak_open, parse_logs, log_sink >>
    /\ UNCHANGED assert_vars

\* scan: the ScanConfiguration of the test's dict carries any parse logs.
scan ==
    /\ phase = "body"
    /\ \E logs \in ScanParseLogs :
         LET r == scan_logs(logs)
         IN  /\ parse_logs' = logs
             /\ log_sink' = r.sink
             /\ outcome' = r.outcome
             /\ phase' = IF r.outcome = "ok" THEN "body" ELSE "raised"
    /\ last_op' = "scan"
    /\ UNCHANGED << test_no, profile_name, profile_target_name, profiles_yml, warehouse,
                    connection, open_connections, db, inserted, warehouse_configuration, io,
                    yml_before, cached_before, events, peak_open >>
    /\ UNCHANGED assert_vars

\* tearDown: self.connection.rollback()
tearDown ==
    /\ phase \in {"body", "raised"}
    /\ db' = tearDownConnection(db)
    /\ phase' = "idle"
    /\ last_op' = "tearDown"
    /\ UNCHANGED << test_no, profile_name, profile_target_name, profiles_yml, warehouse,
                    connection, open_connections, inserted, outcome, warehouse_configuration, io,
                    yml_before, cached_before, events, peak_open, parse_logs, log_sink >>
    /\ UNCHANGED assert_vars

\* Between tests the operator fills in the credentials of the profiles file.
EditProfiles ==
    /\ phase = "idle"
    /\ profiles_yml.exists
    /\ profiles_yml.content # edited_profile
    /\ profiles_yml' = FileWith(edited_profile)
    /\ last_op' = "edit"
    /\ UNCHANGED << phase, test_no, profile_name, profile_target_name, warehouse,
                    connection, open_connections, db, inserted, outcome, warehouse_configuration,
                    io, yml_before, cached_before, events, peak_open, parse_logs,
                    log_sink >>
    /\ UNCHANGED assert_vars

Next ==
    \/ NewTest
    \/ setUp
    \/ sql_update
    \/ create_table
    \/ scan
    \/ tearDown
    \/ EditProfiles

Spec == Init /\ [][Next]_vars

----------------------------------------------------------------------------
(* The assertion helpers applied to every small scan result *)

AssertInit ==
    /\ HarnessInit
    /\ profiles_yml = AbsentFile
    /\ yml_before = AbsentFile
    /\ db = [committed |-> {}, working |-> {}]
    /\ scan_result \in SeqsUpTo(Measurements, MaxMeasurements)
    /\ column \in ColumnNames
    /\ expected_metrics \in SeqsUpTo(Metrics, MaxExpected)
    /\ assert_op = "none"
    /\ passed = FALSE

DoAssertMeasurements ==
    /\ passed' = assertMeasurements(scan_result, column, expected_metrics)
    /\ assert_op' = "assertMeasurements"
    /\ UNCHANGED << scan_result, column, expected_metrics >>
    /\ UNCHANGED harness_vars

DoAssertMeasurementsPresent ==
    /\ passed' = assertMeasurementsPresent(scan_result, column, expected_metrics)
    /\ assert_op' = "assertMeasurementsPresent"
    /\ UNCHANGED << scan_result, column, expected_metrics >>
    /\ UNCHANGED harness_vars

DoAssertMeasurementsAbsent ==
    /\ passed' = assertMeasurementsAbsent(scan_result, column, expected_metrics)
    /\ assert_op' = "assertMeasurementsAbsent"
    /\ UNCHANGED << scan_result, column, expected_metrics >>
    /\ UNCHANGED harness_vars

AssertNext ==
    \/ DoAssertMeasurements
    \/ DoAssertMeasurementsPresent
    \/ DoAssertMeasurementsAbsent

AssertSpec == AssertInit /\ [][AssertNext]_vars

----------------------------------------------------------------------------
(* Properties *)

IsBuiltinDefault == profile_name = "test" /\ profile_target_name = "local_postgres"

Resolved == last_op = "setUp" /\ warehouse_configuration # NoConfiguration

\* The set of metrics of the measurements of the asserted column.
ColumnMetrics ==
    { scan_result[i].metric :
        i \in { j \in DOMAIN scan_result : scan_result[j].column_name = column } }

\* C1: a setUp whose resolved configuration equals the configuration of the
\* cached Warehouse keeps that Warehouse: it calls neither close nor the
\* Warehouse constructor, and the cached connection stays open.
C1_SameConfigurationReusesWarehouse ==
    ( /\ Resolved
      /\ cached_before # NoWarehouse
      /\ cached_before.warehouse_configuration = warehouse_configuration )
    => /\ events = <<>>
       /\ warehouse = cached_before
       /\ warehouse.id \in open_connections
       /\ warehouse.id < test_no

C1_Witness ==
    /\ Resolved
    /\ outcome = "ok"
    /\ cached_before # NoWarehouse
    /\ cached_before.warehouse_configuration = warehouse_configuration
    /\ warehouse_configuration = EditedProperties
    /\ connection = cached_before.id

\* C2: a setUp whose resolved configuration differs from the cached
\* Warehouse's closes the cached connection first and opens the replacement
\* second, and at no moment, inside setUp or between the methods, is more than
\* one Warehouse connection open.
C2_CloseBeforeReplace ==
    /\ Cardinality(open_connections) <= 1
    /\ peak_open <= 1
    /\ ( /\ Resolved
         /\ cached_before # NoWarehouse
         /\ cached_before.warehouse_configuration # warehouse_configuration )
       => /\ events = << [op |-> "close", id |-> cached_before.id],
                         [op |-> "open", id |-> warehouse.id] >>
          /\ warehouse.id # cached_before.id
          /\ open_connections = { warehouse.id }

C2_Witness ==
    /\ Resolved
    /\ cached_before # NoWarehouse
    /\ cached_before.warehouse_configuration # warehouse_configuration
    /\ Len(events) = 2

\* C3: with the profiles file absent, resolving a pair other than
\* ("test", "local_postgres") writes the scaffold and fails with
\* ConfigurationMissing, returning nothing; with the scaffold in place and
\* unedited, resolving such a pair fails with ConfigurationInvalid, writes
\* nothing and does not return the placeholder credentials.
C3_ScaffoldThenInvalid ==
    ( last_op = "setUp" /\ ~IsBuiltinDefault )
    => /\ ~yml_before.exists
          => /\ outcome = "ConfigurationMissing"
             /\ io.wrote
             /\ profiles_yml = FileWith(initial_profile)
             /\ warehouse_configuration = NoConfiguration
       /\ yml_before = FileWith(initial_profile)
          => /\ outcome = "ConfigurationInvalid"
             /\ ~io.wrote
             /\ profiles_yml = yml_before
             /\ warehouse_configuration # PlaceholderProperties

\* C4: tearDown rolls back and neither commits nor closes: after it the
\* test's connection is still open and shows exactly the committed data, the
\* committed data is never changed by a test, and a test that starts on the
\* shared connection sees no row an earlier test inserted.
C4_TearDownRollsBack ==
    /\ db.committed \in InitialData
    /\ last_op = "tearDown"
       => /\ connection \in open_connections
          /\ db.working = db.committed
    /\ ( last_op = "setUp" /\ outcome = "ok" )
       => db.working \cap inserted = {}

C4_Witness ==
    /\ last_op = "setUp"
    /\ outcome = "ok"
    /\ events = <<>>
    /\ (test_no - 1) \in inserted
    /\ connection \in open_connections

\* C5: whatever the outcome of scan, also when the 'Test scan' assertion
\* fires, every parse-log entry of the scan configuration has been passed to
\* the logging sink.
C5_LogsPassedRegardlessOfOutcome ==
    last_op = "scan" => log_sink = parse_logs

\* C6: resolving ("test", "local_postgres") reads no file, writes no file,
\* leaves the profiles file as it was and yields the built-in configuration,
\* whatever the state of the profiles file.
C6_BuiltinDefaultNoIO ==
    ( last_op = "setUp" /\ IsBuiltinDefault )
    => /\ ~io.read
       /\ ~io.wrote
       /\ profiles_yml = yml_before
       /\ warehouse_configuration = BuiltinConfiguration

C6_Witness ==
    /\ last_op = "setUp"
    /\ IsBuiltinDefault
    /\ ~yml_before.exists
    /\ warehouse_configuration = BuiltinConfiguration

\* C7: assertMeasurements passes exactly when the set of metrics measured for
\* the column equals the set of expected metrics.
C7_ExactSet ==
    assert_op = "assertMeasurements"
    => (passed <=> ColumnMetrics = ToSet(expected_metrics))

\* Passing with a duplicated measurement of the column and a measurement of
\* another column whose metric is not expected.
C7_Witness ==
    /\ assert_op = "assertMeasurements"
    /\ passed
    /\ \E i, j \in DOMAIN scan_result :
         /\ i # j
         /\ scan_result[i] = scan_result[j]
         /\ scan_result[i].column_name = column
    /\ \E k \in DOMAIN scan_result :
         /\ scan_result[k].column_name # column
         /\ scan_result[k].metric \notin ToSet(expected_metrics)

\* C8: assertMeasurementsPresent passes exactly when every expected metric is
\* among the metrics measured for the column.
C8_Superset ==
    assert_op = "assertMeasurementsPresent"
    => (passed <=> ToSet(expected_metrics) \subseteq ColumnMetrics)

\* Passing with a metric measured for the column that is not expected.
C8_Witness ==
    /\ assert_op = "assertMeasurementsPresent"
    /\ passed
    /\ expected_metrics # <<>>
    /\ ColumnMetrics \ ToSet(expected_metrics) # {}

\* C9: assertMeasurementsAbsent passes exactly when no forbidden metric is
\* among the metrics measured for the column.
C9_Disjoint ==
    assert_op = "assertMeasurementsAbsent"
    => (passed <=> ToSet(expected_metrics) \cap ColumnMetrics = {})

\* Passing although a forbidden metric is measured for another column.
C9_Witness ==
    /\ assert_op = "assertMeasurementsAbsent"
    /\ passed
    /\ ColumnMetrics # {}
    /\ \E k \in DOMAIN scan_result :
         /\ scan_result[k].column_name # column
         /\ scan_result[k].metric \in ToSet(expected_metrics)

\* C10: every setUp that completes without failing exposes a Warehouse whose
\* ParseLogs hold no warning or error.
C10_ExposedWarehouseVerified ==
    ( last_op = "setUp" /\ outcome = "ok" ) => ~warehouse.has_warnings

====
